---- MODULE Spec2Model ----
(***************************************************************************)
(* The announcement store of server.js: the in-memory collection           *)
(* `announcements` and the five Express handlers that read or mutate it.   *)
(*                                                                         *)
(* Timestamps.  Date.now() is a millisecond count of about 1.7e12 and      *)
(* a 30-day window is 2 592 000 000 ms; both exceed the integers of the    *)
(* model checker.  A timestamp t is therefore written in mixed radix as    *)
(* the pair [d, ms] with t = d * 86400000 + ms and 0 <= ms < 86400000,     *)
(* counted from an epoch one day before the boot of the server.  The       *)
(* encoding is exact: addition carries, comparison is lexicographic.       *)
(*                                                                         *)
(* Strings that are not ASCII in the source are transliterated.            *)
(***************************************************************************)
EXTENDS Integers, Sequences, FiniteSets, TLC

\* announcements  the store, in insertion order
\* now            the value Date.now() returned last
\* req, res       the request handled last and its response (Idle between
\*                requests, once time has passed)
\* issued         the ids given to records so far, seeds included, in order
\* served         the number of requests handled
VARIABLES announcements, now, req, res, issued, served

vars == <<announcements, now, req, res, issued, served>>

\* ------------------------------------------------------------------ bounds
\* Largest day and largest millisecond of a day the clock reaches.
MaxDay == 2
MaxMs == 1
\* Largest number of requests served.
MaxServed == 2

\* ------------------------------------------------------------- timestamps
MsPerDay == 86400000
DefaultDuration == 30
DefaultPriority == 50

Time(d, ms) == [d |-> d + (ms \div MsPerDay), ms |-> ms % MsPerDay]

\* t + k (milliseconds) and t + n * 86400000
AddMs(t, k) == Time(t.d, t.ms + k)
AddDays(t, n) == Time(t.d + n, t.ms)

\* a <= b and a < b on timestamps
TLe(a, b) == a.d < b.d \/ (a.d = b.d /\ a.ms <= b.ms)
TLt(a, b) == a.d < b.d \/ (a.d = b.d /\ a.ms < b.ms)

\* The values n successive calls of Date.now() return when the clock reads t
\* at the first and advances by one millisecond after the k-th: the clock
\* never runs backwards, and k = n is a clock that stands still meanwhile.
DateNow(t, n, k) == [i \in 1..n |-> IF i <= k THEN t ELSE AddMs(t, 1)]

\* The reads of the module load (all within one millisecond) and of one
\* create: the clock stands still, or advances between the reads of
\* startTime and endTime, or between those of createdAt and updatedAt.
BootReads == { DateNow(Time(1, 0), 8, 8) }
CreateReads(t) == { DateNow(t, 5, k) : k \in (IF t.ms < MaxMs THEN {2, 4, 5} ELSE {5}) }

\* ------------------------------------------------------------ identifiers
\* `announce_${Date.now()}_${random}`: the pair of its two variable parts.
\* The literal ids of the seeds, announce_001 and announce_002, carry the
\* timestamp-free first part Literal.
Literal == [d |-> 0, ms |-> 0]
NewId(t, rnd) == <<t, rnd>>
SeedId(n) == <<Literal, n>>

\* Values Math.random().toString(36).substr(2, 9) may return.
RandomSuffix == {1, 2}

\* ------------------------------------------------------------------ seeds
Seeds(r) ==
    << [ id |-> SeedId(1), type |-> "important", title |-> "welcome",
         content |-> "thanks", image |-> "", link |-> "", linkText |-> "",
         showOnce |-> FALSE, priority |-> 100,
         startTime |-> AddDays(r[1], -1), endTime |-> AddDays(r[2], 30),
         buttons |-> << [text |-> "start", action |-> "close"] >>,
         createdAt |-> r[3], updatedAt |-> r[4] ],
       [ id |-> SeedId(2), type |-> "event", title |-> "limited event",
         content |-> "double coins", image |-> "", link |-> "", linkText |-> "",
         showOnce |-> FALSE, priority |-> 90,
         startTime |-> r[5], endTime |-> AddDays(r[6], 7),
         buttons |-> << [text |-> "zhidaole", action |-> "close"] >>,
         createdAt |-> r[7], updatedAt |-> r[8] ] >>

Idle == [op |-> "none"]

Init ==
    \E r \in BootReads :
        /\ announcements = Seeds(r)
        /\ now = r[8]
        /\ req = Idle
        /\ res = Idle
        /\ issued = << SeedId(1), SeedId(2) >>
        /\ served = 0

\* ------------------------------------------------------------ time passes
TickMs ==
    /\ now.ms < MaxMs
    /\ now' = AddMs(now, 1)
    /\ req' = Idle /\ res' = Idle
    /\ UNCHANGED <<announcements, issued, served>>

TickDay ==
    /\ now.d < MaxDay
    /\ now' = AddDays(now, 1)
    /\ req' = Idle /\ res' = Idle
    /\ UNCHANGED <<announcements, issued, served>>

\* ----------------------------------------------------------------- helpers
Has(body, f) == f \in DOMAIN body

\* !v for a string field of a JSON body: absent or the empty string
FalsyStr(body, f) == ~Has(body, f) \/ body[f] = ""

\* A destructured field of req.body: undefined when the body lacks it
Undefined == "undefined"
Field(body, f) == IF Has(body, f) THEN body[f] ELSE Undefined

\* v || dflt for a string, a number and a boolean field
StrOr(body, f, dflt) == IF FalsyStr(body, f) THEN dflt ELSE body[f]
NumOr(body, f, dflt) == IF ~Has(body, f) \/ body[f] = 0 THEN dflt ELSE body[f]
BoolOr(body, f, dflt) == IF ~Has(body, f) \/ ~body[f] THEN dflt ELSE body[f]

\* announcements.findIndex(a => a.id === id); 0 stands for -1
FindIndex(s, id) ==
    IF \E i \in 1..Len(s) : s[i].id = id
    THEN CHOOSE i \in 1..Len(s) :
            s[i].id = id /\ \A j \in 1..(i - 1) : s[j].id # id
    ELSE 0

\* The window with its upper bound exclusive
InWindowExclusiveEnd(a, t) == TLe(a.startTime, t) /\ TLt(t, a.endTime)

\* a.startTime <= now && a.endTime >= now
InWindow(a, t) == TLe(a.startTime, t) /\ TLe(t, a.endTime)

\* The comparator with its operands exchanged: ascending priority
ByPriorityAscending(a, b) == a.priority - b.priority

\* (a, b) => b.priority - a.priority
ByPriority(a, b) == b.priority - a.priority

\* Array.prototype.sort with ByPriority: stable, an element moves in front
\* of an earlier one only when the comparator of the pair is positive.
RECURSIVE InsertSorted(_, _)
InsertSorted(x, s) ==
    IF s = << >> THEN << x >>
    ELSE IF ByPriority(Head(s), x) <= 0
         THEN << Head(s) >> \o InsertSorted(x, Tail(s))
         ELSE << x >> \o s

RECURSIVE SortDesc(_)
SortDesc(s) ==
    IF s = << >> THEN << >>
    ELSE InsertSorted(s[Len(s)], SortDesc(SubSeq(s, 1, Len(s) - 1)))

\* announcements.filter(a => ...)
RECURSIVE FilterActive(_, _)
FilterActive(s, t) ==
    IF s = << >> THEN << >>
    ELSE IF InWindow(Head(s), t)
         THEN << Head(s) >> \o FilterActive(Tail(s), t)
         ELSE FilterActive(Tail(s), t)

ActiveAnnouncements(s, t) == SortDesc(FilterActive(s, t))

\* ----------------------------------------------------------- request data
Required == [type |-> "event", title |-> "T", content |-> "C"]

\* JSON bodies of POST /api/admin/announcements
CreateBodies ==
    { Required,
      [type |-> "event", title |-> "T", content |-> "C",
       priority |-> 0, duration |-> 0],
      [type |-> "normal", title |-> "T", content |-> "C",
       priority |-> 120, duration |-> 1, image |-> "i.png",
       link |-> "http://l", linkText |-> "go", showOnce |-> TRUE],
      [title |-> "T", content |-> "C"],
      [type |-> "event", title |-> "", content |-> "C"],
      [type |-> "event", title |-> "T"] }

\* JSON bodies of PUT /api/admin/announcements/:id
UpdateBodies ==
    { [priority |-> 10],
      [id |-> SeedId(2), createdAt |-> Time(9, 0), updatedAt |-> Time(0, 0)],
      [title |-> "T2", startTime |-> Time(2, 0), endTime |-> Time(2, 1)] }

\* An id no announcement ever has
MissingId == <<Literal, 0>>

\* The :id values of the requests: every stored id and a missing one
RequestIds == { announcements[i].id : i \in 1..Len(announcements) } \cup {MissingId}

\* --------------------------------------------------------------- handlers
\* GET /api/announcements
GetAnnouncements ==
    /\ served < MaxServed
    /\ LET activeAnnouncements == ActiveAnnouncements(announcements, now)
       IN  res' = [op |-> "list-active", status |-> 200,
                   announcements |-> activeAnnouncements,
                   total |-> Len(activeAnnouncements)]
    /\ req' = [op |-> "list-active"]
    /\ served' = served + 1
    /\ UNCHANGED <<announcements, now, issued>>

\* GET /api/admin/announcements
GetAdminAnnouncements ==
    /\ served < MaxServed
    /\ res' = [op |-> "list-all", status |-> 200,
               announcements |-> announcements,
               total |-> Len(announcements)]
    /\ req' = [op |-> "list-all"]
    /\ served' = served + 1
    /\ UNCHANGED <<announcements, now, issued>>

\* The presence check without its last operand
InvalidWithoutContent(body) == FalsyStr(body, "type") \/ FalsyStr(body, "title")

\* if (!type || !title || !content) return res.status(400)
Invalid(body) ==
    FalsyStr(body, "type") \/ FalsyStr(body, "title") \/ FalsyStr(body, "content")

\* The announcement object of a create; r holds the five Date.now() reads
\* in the order of the source: id, startTime, endTime, createdAt, updatedAt.
Announcement(body, rnd, r) ==
    [ id |-> NewId(r[1], rnd),
      type |-> StrOr(body, "type", "normal"),
      title |-> Field(body, "title"),
      content |-> Field(body, "content"),
      image |-> StrOr(body, "image", ""),
      link |-> StrOr(body, "link", ""),
      linkText |-> StrOr(body, "linkText", ""),
      showOnce |-> BoolOr(body, "showOnce", FALSE),
      priority |-> NumOr(body, "priority", DefaultPriority),
      startTime |-> r[2],
      endTime |-> AddDays(r[3], NumOr(body, "duration", DefaultDuration)),
      buttons |-> << [text |-> "zhidaole", action |-> "close"] >>,
      createdAt |-> r[4],
      updatedAt |-> r[5] ]

\* POST /api/admin/announcements
PostAdminAnnouncements(body, rnd, r) ==
    /\ served < MaxServed
    /\ req' = [op |-> "create", body |-> body]
    /\ served' = served + 1
    /\ IF Invalid(body)
       THEN /\ res' = [op |-> "create", status |-> 400]
            /\ UNCHANGED <<announcements, now, issued>>
       ELSE /\ LET announcement == Announcement(body, rnd, r)
               IN  /\ announcements' = Append(announcements, announcement)
                   /\ issued' = Append(issued, announcement.id)
                   /\ res' = [op |-> "create", status |-> 200,
                              announcement |-> announcement]
            /\ now' = r[5]

\* The merge without the spread of the stored record
MergeWithoutStored(old, updates, t) ==
    [ f \in (DOMAIN updates) \cup {"updatedAt"} |->
        IF f = "updatedAt" THEN t ELSE updates[f] ]

\* { ...announcements[index], ...updates, updatedAt: Date.now() }
Merge(old, updates, t) ==
    [ f \in (DOMAIN old) \cup (DOMAIN updates) \cup {"updatedAt"} |->
        IF f = "updatedAt" THEN t
        ELSE IF f \in DOMAIN updates THEN updates[f]
        ELSE old[f] ]

\* PUT /api/admin/announcements/:id
PutAdminAnnouncement(id, updates) ==
    /\ served < MaxServed
    /\ req' = [op |-> "update", id |-> id, body |-> updates]
    /\ served' = served + 1
    /\ LET index == FindIndex(announcements, id)
       IN  IF index = 0
           THEN /\ res' = [op |-> "update", status |-> 404]
                /\ UNCHANGED announcements
           ELSE /\ announcements' =
                      [announcements EXCEPT ![index] = Merge(@, updates, now)]
                /\ res' = [op |-> "update", status |-> 200,
                           announcement |-> announcements'[index]]
    /\ UNCHANGED <<now, issued>>

\* announcements.splice(index, 1)
Splice(s, index) == SubSeq(s, 1, index - 1) \o SubSeq(s, index + 1, Len(s))

\* DELETE /api/admin/announcements/:id
DeleteAdminAnnouncement(id) ==
    /\ served < MaxServed
    /\ req' = [op |-> "delete", id |-> id]
    /\ served' = served + 1
    /\ LET index == FindIndex(announcements, id)
       IN  IF index = 0
           THEN /\ res' = [op |-> "delete", status |-> 404]
                /\ UNCHANGED announcements
           ELSE /\ announcements' = Splice(announcements, index)
                /\ res' = [op |-> "delete", status |-> 200]
    /\ UNCHANGED <<now, issued>>

Create == \E body \in CreateBodies, rnd \in RandomSuffix :
              \E r \in CreateReads(now) : PostAdminAnnouncements(body, rnd, r)
Update == \E id \in RequestIds, updates \in UpdateBodies :
              PutAdminAnnouncement(id, updates)
Delete == \E id \in RequestIds : DeleteAdminAnnouncement(id)

Next ==
    \/ TickMs
    \/ TickDay
    \/ GetAnnouncements
    \/ GetAdminAnnouncements
    \/ Create
    \/ Update
    \/ Delete

Spec == Init /\ [][Next]_vars

\* ================================================================= claims
Stored == 1..Len(announcements)
Answered(op, status) == res.op = op /\ res.status = status

\* The record a request for id addresses: the first stored one with that id
Target(s, id) == CHOOSE i \in 1..Len(s) :
                    s[i].id = id /\ \A j \in 1..(i - 1) : s[j].id # id

\* C1: the public list holds a stored announcement exactly when
\* startTime <= now <= endTime, both bounds inclusive; it holds nothing that
\* is not stored, and total counts the announcements returned.
C1_ActiveIffInWindow ==
    res.op = "list-active" =>
        /\ \A i \in Stored :
              (\E j \in 1..Len(res.announcements) :
                    res.announcements[j] = announcements[i])
              <=> ( /\ TLe(announcements[i].startTime, now)
                    /\ TLe(now, announcements[i].endTime) )
        /\ \A j \in 1..Len(res.announcements) :
              \E i \in Stored : announcements[i] = res.announcements[j]
        /\ Len(res.announcements) =
              Cardinality({ i \in Stored :
                  /\ TLe(announcements[i].startTime, now)
                  /\ TLe(now, announcements[i].endTime) })
        /\ res.total = Len(res.announcements)

\* A public list that returns one stored announcement and omits another.
C1_Witness ==
    /\ res.op = "list-active"
    /\ res.total >= 1
    /\ res.total < Len(announcements)

\* C2: in the public list an announcement of higher priority stands before
\* every announcement of lower priority.
C2_DescendingPriority ==
    res.op = "list-active" =>
        \A j, k \in 1..Len(res.announcements) :
            res.announcements[j].priority > res.announcements[k].priority
                => j < k

\* A public list of three announcements whose order is not the stored one.
C2_Witness ==
    /\ res.op = "list-active"
    /\ res.total >= 3
    /\ res.announcements # announcements
    /\ res.announcements[1].priority > res.announcements[3].priority

\* C3: no two stored announcements share an id, and no id was issued twice
\* (seeds and deleted records included).
C3_UniqueIds ==
    /\ \A i, j \in Stored : announcements[i].id = announcements[j].id => i = j
    /\ \A i, j \in 1..Len(issued) : issued[i] = issued[j] => i = j

\* C4: a successful update leaves id and createdAt of its target as they were.
C4_UpdateKeepsIdentity ==
    [][ (res'.op = "update" /\ res'.status = 200) =>
            LET i == Target(announcements, req'.id)
            IN  /\ announcements'[i].id = announcements[i].id
                /\ announcements'[i].createdAt = announcements[i].createdAt ]_vars

\* C5: updatedAt >= createdAt for every stored announcement, and a successful
\* update leaves updatedAt of its target strictly greater than before.
C5_UpdatedAtGrows ==
    [][ /\ \A i \in 1..Len(announcements') :
              TLe(announcements'[i].createdAt, announcements'[i].updatedAt)
        /\ (res'.op = "update" /\ res'.status = 200) =>
              LET i == Target(announcements, req'.id)
              IN  TLt(announcements[i].updatedAt, announcements'[i].updatedAt)
      ]_vars

\* C6: a created record starts at its creation time and ends duration days
\* later, 30 days later when the request names no duration.
C6_Window ==
    Answered("create", 200) =>
        LET a == res.announcement
            days == IF Has(req.body, "duration") THEN req.body.duration ELSE 30
        IN  /\ a.startTime = a.createdAt
            /\ a.endTime = AddDays(a.startTime, days)

\* C7: a successful update changes nothing in the store but the fields its
\* body names and updatedAt of the record with the requested id; the other
\* records, their number and their order stay.
C7_UpdateFrame ==
    [][ (res'.op = "update" /\ res'.status = 200) =>
            /\ Len(announcements') = Len(announcements)
            /\ \E i \in Stored :
                  /\ announcements[i].id = req'.id
                  /\ \A j \in Stored \ {i} : announcements'[j] = announcements[j]
                  /\ DOMAIN announcements'[i] \subseteq
                        (DOMAIN announcements[i]) \cup (DOMAIN req'.body)
                            \cup {"updatedAt"}
                  /\ \A f \in (DOMAIN announcements[i])
                                \ ((DOMAIN req'.body) \cup {"updatedAt"}) :
                        /\ f \in DOMAIN announcements'[i]
                        /\ announcements'[i][f] = announcements[i][f] ]_vars

\* An update of the priority alone has been applied to one of three records.
C7_Witness ==
    /\ Answered("update", 200)
    /\ req.body = [priority |-> 10]
    /\ Len(announcements) >= 3
    /\ \E i \in Stored : announcements[i].id = req.id /\ announcements[i].priority = 10

\* C8: a create without a truthy type, title or content answers 400, an
\* update or delete of an id nobody has answers 404, and the store is the
\* same before and after every such call.
C8_FailuresKeepStore ==
    [][ /\ ( /\ req'.op = "create"
             /\ \E f \in {"type", "title", "content"} :
                    f \notin DOMAIN req'.body \/ req'.body[f] = "" )
           => (res'.status = 400 /\ announcements' = announcements)
        /\ ( /\ req'.op \in {"update", "delete"}
             /\ \A i \in Stored : announcements[i].id # req'.id )
           => (res'.status = 404 /\ announcements' = announcements)
        /\ (res'.op # "none" /\ res'.status \in {400, 404})
           => announcements' = announcements ]_vars

\* A create without content was refused while the store held a created record.
C8_Witness ==
    /\ Answered("create", 400)
    /\ ~Has(req.body, "content")
    /\ Len(announcements) >= 3

\* C9: after a successful delete no stored announcement has the deleted id,
\* and the store is the previous one with exactly one record taken out.
C9_DeleteRemovesId ==
    [][ (res'.op = "delete" /\ res'.status = 200) =>
            /\ \A i \in 1..Len(announcements') : announcements'[i].id # req'.id
            /\ Len(announcements') = Len(announcements) - 1
            /\ \E k \in Stored :
                  announcements' = SubSeq(announcements, 1, k - 1)
                                    \o SubSeq(announcements, k + 1, Len(announcements))
      ]_vars

\* C10: a created record has the priority of the request when the request
\* names one, 50 otherwise, and the one default button with action "close".
C10_Priority ==
    Answered("create", 200) =>
        LET a == res.announcement
        IN  /\ a.priority = (IF Has(req.body, "priority")
                             THEN req.body.priority ELSE 50)
            /\ Len(a.buttons) = 1
            /\ a.buttons[1].action = "close"
====
